---------------------------- MODULE Spec2Model ----------------------------
(***************************************************************************)
(* Verification model of the HubSpot deals pipeline:                       *)
(*   - the normalizing transform HubSpotDealRaw -> HubSpotDeal             *)
(*     (ingest/hubspotTransforms.ts, here src/unnamed/part_006);           *)
(*   - the sync driver syncHubSpotDeals                                    *)
(*     (scripts/hubspotSync.ts, here src/unnamed/part_005);                *)
(*   - the workflow trigger API (src/unnamed/part_003 and part_004);       *)
(*   - the rate limiter and the pager of the connector, whose code is not  *)
(*     part of the sources at hand: they follow the written specification. *)
(*                                                                         *)
(* JavaScript values are modelled by what the language does with them:     *)
(* a string is a sequence of one-character strings, a property value is a  *)
(* tagged value (absent key / undefined / null / string), a number is an   *)
(* integer or NaN, a Date is a time value in milliseconds or Invalid Date. *)
(***************************************************************************)
EXTENDS Integers, Sequences, FiniteSets, TLC

VARIABLES
    \* ---- normalizing transform (TransformSpec) ----
    raw,          \* the raw record on the HubSpotDealRaw stream
    now,          \* the wall clock, ms since the model's epoch
    deliveries,   \* how many times the stream delivered raw to the transform
    dealStream,   \* records emitted on the HubSpotDeal stream
    dlq,          \* entries written to the dead-letter queue
    batch,        \* the raw records a batch puts on the stream (PipelineSpec)
    dlqSeen,      \* dead-letter entries the dead-letter consumer has logged
    \* ---- sync driver (SyncSpec) ----
    pc,           \* position of syncHubSpotDeals
    tokenSet,     \* process.env.HUBSPOT_TOKEN is set
    connState,    \* the connector's lifecycle state
    connectCalls, \* calls of connector.connect()
    disconnectCalls, \* calls of connector.disconnect()
    yielded,      \* records streamDeals has yielded so far
    dealCount, successCount, errorCount,
    requests,     \* POSTs issued to /ingest/HubSpotDealRaw, with their outcome
    summary,      \* the "Final stats" line, once logged
    thrown,       \* the error syncHubSpotDeals rejected with, or "none"
    \* ---- workflow trigger API (TriggerSpec) ----
    invocations,  \* the calls of the trigger handler: position, parameters, response
    executions,   \* the workflow executions client.workflow.execute started
    backgroundLog, \* what the fire-and-forget callbacks logged
    \* ---- rate limiter of the connector (LimiterSpec) ----
    bucket,       \* the rate budget: capacity, tokens, refillPerSecond, lastRefill
    clock,        \* the wall clock of the limiter, in ticks
    calls,        \* the acquire() calls of the concurrent flows
    \* ---- pager of the connector (PagerSpec) ----
    fetch,        \* one fetchPage call: position, remote calls, responses, result
    \* ---- connector core: lifecycle and one stream (ConnectorSpec) ----
    connector,    \* the connector: lifecycle state, resources held, disconnect() calls
    remote,       \* the pages of the remote source
    stream,       \* one streamX sequence and its consumer
    \* ---- consumption APIs (ApiSpec) ----
    cache,        \* the entries of MooseCache: key, value, and the request that wrote it
    response,     \* the answer to the latest request
    requestCount  \* the requests made so far

transformVars == <<raw, now, deliveries, dealStream, dlq, batch, dlqSeen>>
syncVars == <<pc, tokenSet, connState, connectCalls, disconnectCalls, yielded,
              dealCount, successCount, errorCount, requests, summary, thrown>>
triggerVars == <<invocations, executions, backgroundLog>>
limiterVars == <<bucket, clock, calls>>
pagerVars == <<fetch>>
connectorVars == <<connector, remote, stream>>
apiVars == <<cache, response, requestCount>>
vars == <<transformVars, syncVars, triggerVars, limiterVars, pagerVars,
          connectorVars, apiVars>>

\* what the actions of one part leave alone
notTransform == <<syncVars, triggerVars, limiterVars, pagerVars, connectorVars, apiVars>>
notSync == <<transformVars, triggerVars, limiterVars, pagerVars, connectorVars, apiVars>>
notTrigger == <<transformVars, pc, connState, connectCalls, disconnectCalls,
                yielded, dealCount, successCount, errorCount, requests, summary,
                thrown, limiterVars, pagerVars, connectorVars, apiVars>>
notLimiter == <<transformVars, syncVars, triggerVars, pagerVars, connectorVars,
               apiVars>>
notPager == <<transformVars, syncVars, triggerVars, limiterVars, connectorVars,
             apiVars>>
notConnector == <<transformVars, syncVars, triggerVars, limiterVars, pagerVars,
                 apiVars>>
notApi == <<transformVars, syncVars, triggerVars, limiterVars, pagerVars,
           connectorVars>>

----------------------------------------------------------------------------
(* Bounds of the model *)

\* clock ticks that may pass while a record is being (re)delivered
MaxTicks == 1
\* deliveries of the same raw record to the transform (at-least-once stream)
MaxDeliveries == 2
\* records one streamDeals sequence yields
MaxRecords == 2
\* raw records in one batch on the HubSpotDealRaw stream
MaxBatch == 3
\* calls of the trigger handler
MaxInvocations == 2
\* the grain of the limiter's clock: ticks in a second
TicksPerSecond == 2
\* ticks the limiter's clock runs
MaxClock == 3
\* the largest capacity and the largest refillPerSecond of a rate budget
MaxCapacity == 2
MaxRefill == 2
\* acquire() calls made on one limiter
MaxCalls == 3
\* the largest bound on the attempts of one fetchPage
MaxAttempts == 4
\* pages of a remote source, and records on one page
MaxPages == 3
MaxPageSize == 2
\* disconnect() calls on one connector
MaxDisconnects == 2
\* requests to the consumption APIs
MaxRequests == 2

----------------------------------------------------------------------------
(* JavaScript strings *)

\* "abc" as the sequence of its characters
UpperChars == <<"A","B","C","D","E","F","G","H","I","J","K","L","M",
                "N","O","P","Q","R","S","T","U","V","W","X","Y","Z">>
LowerChars == <<"a","b","c","d","e","f","g","h","i","j","k","l","m",
                "n","o","p","q","r","s","t","u","v","w","x","y","z">>
Digits == <<"0","1","2","3","4","5","6","7","8","9">>

LowerChar(c) ==
    IF \E i \in DOMAIN UpperChars : UpperChars[i] = c
    THEN LowerChars[CHOOSE i \in DOMAIN UpperChars : UpperChars[i] = c]
    ELSE c

\* String.prototype.toLowerCase
ToLowerCase(s) == [i \in DOMAIN s |-> LowerChar(s[i])]

\* String.prototype.includes
Includes(s, sub) ==
    \E i \in 0..(Len(s) - Len(sub)) : SubSeq(s, i + 1, i + Len(sub)) = sub

IsDigit(c) == \E i \in DOMAIN Digits : Digits[i] = c
DigitVal(c) == (CHOOSE i \in DOMAIN Digits : Digits[i] = c) - 1

RECURSIVE DecVal(_)
DecVal(ds) ==
    IF ds = <<>> THEN 0
    ELSE DecVal(SubSeq(ds, 1, Len(ds) - 1)) * 10 + DigitVal(ds[Len(ds)])

RECURSIVE SkipWs(_)
SkipWs(s) == IF s # <<>> /\ Head(s) = " " THEN SkipWs(Tail(s)) ELSE s

RECURSIVE DigitPrefix(_)
DigitPrefix(s) ==
    IF s # <<>> /\ IsDigit(Head(s)) THEN <<Head(s)>> \o DigitPrefix(Tail(s)) ELSE <<>>

----------------------------------------------------------------------------
(* JavaScript numbers: an integer or NaN *)

Num(n) == [nan |-> FALSE, v |-> n]
NaN == [nan |-> TRUE, v |-> 0]

\* x || y on numbers: NaN and 0 are falsy
NumOr(x, y) == IF x.nan \/ x.v = 0 THEN y ELSE x

\* parseFloat on the strings of the model (no ".", no exponent, no "Infinity"):
\* leading white space is skipped, an optional sign and the longest run of
\* digits are read, whatever follows is ignored; no digit at all gives NaN.
ParseFloat(s) ==
    LET t == SkipWs(s)
        signed == t # <<>> /\ Head(t) \in {"-", "+"}
        ds == DigitPrefix(IF signed THEN Tail(t) ELSE t)
    IN IF ds = <<>> THEN NaN
       ELSE Num(IF signed /\ Head(t) = "-" THEN 0 - DecVal(ds) ELSE DecVal(ds))

----------------------------------------------------------------------------
(* Property values: string | null | undefined, or the key is absent *)

Str(s) == [tag |-> "string", s |-> s]
Null == [tag |-> "null", s |-> <<>>]
Undefined == [tag |-> "undefined", s |-> <<>>]
Absent == [tag |-> "absent", s |-> <<>>]

\* props.k : reading a key that is absent gives undefined
Get(props, k) == IF props[k].tag = "absent" THEN Undefined ELSE props[k]

\* truthiness of a property value: only a non-empty string is truthy
Truthy(v) == v.tag = "string" /\ v.s # <<>>

\* a || b on property values
Or(a, b) == IF Truthy(a) THEN a ELSE b

\* String(value)
JSString(v) ==
    CASE v.tag = "string" -> v
      [] v.tag = "null" -> Str(<<"n","u","l","l">>)
      [] OTHER -> Str(<<"u","n","d","e","f","i","n","e","d">>)


----------------------------------------------------------------------------
(* JavaScript Date: a time value in ms since the model's epoch,            *)
(* 2024-01-01T00:00:00Z, or Invalid Date.                                  *)

MsPerMinute == 1000 * 60
MsPerHour == 1000 * 60 * 60
\* 1000 * 60 * 60 * 24 of the daysToClose computation
MsPerDay == 1000 * 60 * 60 * 24

DateOf(t) == [valid |-> TRUE, t |-> t]
InvalidDate == [valid |-> FALSE, t |-> 0]

TwoDigits(s, i) == IsDigit(s[i]) /\ IsDigit(s[i + 1])

\* new Date(string) on the date strings of the model: the ISO forms
\* "2024-01-DD" and "2024-01-DDTHH:mmZ"; any other string of the model's
\* inputs is no date and gives Invalid Date. new Date(string) never throws.
DateParse(s) ==
    LET dateOk == /\ Len(s) \in {10, 17}
                  /\ SubSeq(s, 1, 8) = <<"2","0","2","4","-","0","1","-">>
                  /\ TwoDigits(s, 9)
                  /\ DecVal(SubSeq(s, 9, 10)) \in 1..31
        timeOk == /\ Len(s) = 17
                  /\ s[11] = "T" /\ s[14] = ":" /\ s[17] = "Z"
                  /\ TwoDigits(s, 12) /\ TwoDigits(s, 15)
                  /\ DecVal(SubSeq(s, 12, 13)) \in 0..23
                  /\ DecVal(SubSeq(s, 15, 16)) \in 0..59
        day == DecVal(SubSeq(s, 9, 10)) - 1
    IN IF dateOk /\ Len(s) = 10 THEN DateOf(day * MsPerDay)
       ELSE IF dateOk /\ timeOk
            THEN DateOf(day * MsPerDay + DecVal(SubSeq(s, 12, 13)) * MsPerHour
                        + DecVal(SubSeq(s, 15, 16)) * MsPerMinute)
       ELSE InvalidDate

\* every object is truthy, an Invalid Date too
DateTruthy(d) == TRUE

\* an optional Date (Date | undefined)
SomeDate(d) == [def |-> TRUE, valid |-> d.valid, t |-> d.t]
NoDate == [def |-> FALSE, valid |-> FALSE, t |-> 0]

\* an optional number (number | undefined)
SomeNum(x) == [def |-> TRUE, nan |-> x.nan, v |-> x.v]
NoNum == [def |-> FALSE, nan |-> FALSE, v |-> 0]

Abs(x) == IF x < 0 THEN 0 - x ELSE x
\* Math.ceil(a / b) for a >= 0, b > 0
CeilDiv(a, b) == (a + b - 1) \div b

----------------------------------------------------------------------------
(* The normalizing transform, HubSpotDealRaw -> HubSpotDeal *)

StandardProperties ==
    {"dealname", "amount", "dealstage", "pipeline", "dealtype", "closedate",
     "createdate", "hs_lastmodifieddate", "hubspot_owner_id", "amount_in_home_currency",
     "hs_deal_stage_probability", "dealstage_label", "pipeline_label", "deal_currency_code",
     "hs_forecast_amount", "hs_projected_amount", "num_associated_contacts",
     "num_contacted_notes", "days_to_close"}

\* the property keys of the model: the standard ones and one custom key
PropKeys == StandardProperties \cup {"lead_source"}

DealName(props) == Or(Get(props, "dealname"), Str(<<"U","n","t","i","t","l","e","d"," ","D","e","a","l">>))

\* faulty variant of Amount: the final "|| 0" is missing
AmountNoZeroFallback(props) ==
    ParseFloat(Or(Get(props, "amount"), Str(<<"0">>)).s)
\* parseFloat(props.amount || "0") || 0
Amount(props) ==
    NumOr(ParseFloat(Or(Get(props, "amount"), Str(<<"0">>)).s), Num(0))

Currency(props) == Or(Get(props, "deal_currency_code"), Str(<<"U","S","D">>))
Stage(props) == Or(Get(props, "dealstage"), Str(<<"u","n","k","n","o","w","n">>))
StageLabel(props) == Or(Get(props, "dealstage_label"), Stage(props))
Pipeline(props) == Or(Get(props, "pipeline"), Str(<<"d","e","f","a","u","l","t">>))
PipelineLabel(props) == Or(Get(props, "pipeline_label"), Pipeline(props))

\* parseDate: no string gives the current time, a string is parsed
ParseDate(dateStr, t) ==
    IF ~Truthy(dateStr) THEN DateOf(t) ELSE DateParse(dateStr.s)

CreatedAt(rawDeal, t) ==
    LET d == ParseDate(Or(Get(rawDeal.properties, "createdate"), Undefined), t)
    IN IF DateTruthy(d) THEN d ELSE DateParse(rawDeal.createdAt)

LastModifiedAt(rawDeal, t) ==
    LET d == ParseDate(Or(Get(rawDeal.properties, "hs_lastmodifieddate"), Undefined), t)
    IN IF DateTruthy(d) THEN d ELSE DateParse(rawDeal.updatedAt)

CloseDate(props, t) ==
    IF Truthy(Get(props, "closedate"))
    THEN SomeDate(ParseDate(Or(Get(props, "closedate"), Undefined), t))
    ELSE NoDate

\* faulty variant of StageProbability: it falls back to amount, as the
\* forecast does
StageProbabilityWithAmountFallback(props) ==
    NumOr(ParseFloat(Or(Get(props, "hs_deal_stage_probability"),
                        Or(Get(props, "amount"), Str(<<"0">>))).s), Num(0))
\* parseFloat(props.hs_deal_stage_probability || "0") || 0
StageProbability(props) ==
    NumOr(ParseFloat(Or(Get(props, "hs_deal_stage_probability"), Str(<<"0">>)).s), Num(0))

ForecastAmount(props) ==
    NumOr(ParseFloat(Or(Get(props, "hs_forecast_amount"),
                        Or(Get(props, "amount"), Str(<<"0">>))).s), Num(0))

ProjectedAmount(props) ==
    NumOr(ParseFloat(Or(Get(props, "hs_projected_amount"),
                        Or(Get(props, "amount"), Str(<<"0">>))).s), Num(0))

\* faulty variant of IsWon: the stage is not lower-cased
IsWonCaseSensitive(stage) ==
    Includes(stage.s, <<"w","o","n">>) \/ Includes(stage.s, <<"c","l","o","s","e","d">>)
\* stage.toLowerCase().includes("won") || stage.toLowerCase().includes("closed")
IsWon(stage) ==
    \/ Includes(ToLowerCase(stage.s), <<"w","o","n">>)
    \/ Includes(ToLowerCase(stage.s), <<"c","l","o","s","e","d">>)

IsClosed(stage) ==
    \/ IsWon(stage)
    \/ Includes(ToLowerCase(stage.s), <<"l","o","s","t">>)
    \/ Includes(ToLowerCase(stage.s), <<"c","l","o","s","e","d">>)

\* closeDate is truthy whenever it is a Date; an Invalid Date makes the
\* difference NaN, and Math.ceil(NaN) is NaN
DaysToClose(isClosed, closeDate, createdAt) ==
    IF isClosed /\ closeDate.def
    THEN IF closeDate.valid /\ createdAt.valid
         THEN SomeNum(Num(CeilDiv(Abs(closeDate.t - createdAt.t), MsPerDay)))
         ELSE SomeNum(NaN)
    ELSE NoNum

\* the entries of props that are no standard property and neither undefined
\* nor null; a key left out is Absent in the result
CustomProperties(props) ==
    [k \in DOMAIN props |->
        IF /\ props[k].tag # "absent"
           /\ k \notin StandardProperties
           /\ props[k].tag # "undefined" /\ props[k].tag # "null"
        THEN props[k] ELSE Absent]

\* rawDeal.associations.contacts throws a TypeError when associations is missing
TransformThrows(rawDeal) == ~rawDeal.associations.present

\* the HubSpotDeal the transform returns (contactCount and noteCount, which no
\* property below reads, are left out)
Normalized(rawDeal, t) ==
    LET props == rawDeal.properties
        stage == Stage(props)
        createdAt == CreatedAt(rawDeal, t)
        closeDate == CloseDate(props, t)
    IN [id |-> rawDeal.id,
        dealName |-> DealName(props),
        amount |-> Amount(props),
        currency |-> Currency(props),
        stage |-> stage,
        stageLabel |-> StageLabel(props),
        pipeline |-> Pipeline(props),
        pipelineLabel |-> PipelineLabel(props),
        dealType |-> Or(Get(props, "dealtype"), Undefined),
        closeDate |-> closeDate,
        createdAt |-> createdAt,
        lastModifiedAt |-> LastModifiedAt(rawDeal, t),
        ownerId |-> Or(Get(props, "hubspot_owner_id"), Undefined),
        stageProbability |-> StageProbability(props),
        forecastAmount |-> ForecastAmount(props),
        projectedAmount |-> ProjectedAmount(props),
        daysToClose |-> DaysToClose(IsClosed(stage), closeDate, createdAt),
        isWon |-> IsWon(stage),
        isClosed |-> IsClosed(stage),
        isArchived |-> rawDeal.archived,
        associatedContacts |-> rawDeal.associations.contacts,
        associatedCompanies |-> rawDeal.associations.companies,
        customProperties |-> CustomProperties(props)]

\* a transform that filters out the records without a deal name
EmittedSkipsUntitled(rawDeal, t) ==
    IF Truthy(Get(rawDeal.properties, "dealname"))
    THEN <<Normalized(rawDeal, t)>> ELSE <<>>

\* what the transform puts on the HubSpotDeal stream for one raw record: the
\* record it returns
Emitted(rawDeal, t) == <<Normalized(rawDeal, t)>>

\* the dead-letter entry the stream writes for a record whose transform threw
DeadLetter(rawDeal, reason, t) ==
    [originalRecord |-> rawDeal, failureReason |-> reason, failedAt |-> t]

----------------------------------------------------------------------------
(* Inputs of the transform *)

\* the wall clock when the first delivery may happen: ten days after the epoch
Clock0 == 10 * MsPerDay

NoProps == [k \in PropKeys |-> Absent]

\* the property objects that take, on the keys of opts, a value of opts[k]
\* and have no other key
Vary(opts) ==
    LET ks == DOMAIN opts
        U == UNION {opts[k] : k \in ks}
    IN {[k \in PropKeys |-> IF k \in ks THEN f[k] ELSE Absent] :
            f \in {g \in [ks -> U] : \A k \in ks : g[k] \in opts[k]}}

NumericProps ==
    Vary([amount |-> {Absent, Null, Str(<<>>), Str(<<"x">>), Str(<<"5","x">>), Str(<<"5">>)},
          hs_forecast_amount |-> {Absent, Str(<<>>), Str(<<"7">>), Str(<<"x">>)},
          hs_projected_amount |-> {Absent, Str(<<"7">>), Str(<<"x">>)},
          hs_deal_stage_probability |-> {Absent, Null, Str(<<"1">>), Str(<<"x">>)}])

StageDateProps ==
    Vary([dealstage |-> {Absent, Str(<<"W","O","N">>), Str(<<"C","l","o","s","e","d","W","o","n">>),
                         Str(<<"c","l","o","s","e","d","l","o","s","t">>), Str(<<"L","o","s","t">>), Str(<<"o","p","e","n">>)},
          createdate |-> {Absent, Str(<<"2","0","2","4","-","0","1","-","0","3">>), Str(<<"b","a","d">>)},
          hs_lastmodifieddate |-> {Absent, Str(<<"2","0","2","4","-","0","1","-","0","4">>), Str(<<"b","a","d">>)},
          closedate |-> {Absent, Str(<<"2","0","2","4","-","0","1","-","0","1">>), Str(<<"2","0","2","4","-","0","1","-","0","4","T","1","2",":","0","0","Z">>), Str(<<"b","a","d">>)}])

CustomProps ==
    Vary([lead_source |-> {Absent, Null, Undefined, Str(<<>>), Str(<<"w","e","b">>)},
          dealname |-> {Absent, Str(<<"A">>)},
          hubspot_owner_id |-> {Absent, Str(<<"4","2">>)}])

Associations ==
    {[present |-> TRUE, contacts |-> <<>>, companies |-> <<>>],
     [present |-> FALSE, contacts |-> <<>>, companies |-> <<>>]}

\* id is a string, or missing (undefined)
RawDeals ==
    {[id |-> i, properties |-> p, createdAt |-> <<"2","0","2","4","-","0","1","-","0","2">>, updatedAt |-> <<"2","0","2","4","-","0","1","-","0","5">>,
      archived |-> FALSE, associations |-> a] :
        i \in {Str(<<"d","1">>), Undefined},
        p \in NumericProps \cup StageDateProps \cup CustomProps,
        a \in Associations}

\* the records of a batch: with or without id, with or without associations,
\* with or without a deal name
BatchDeals ==
    {[id |-> i, properties |-> p, createdAt |-> <<"2","0","2","4","-","0","1","-","0","2">>, updatedAt |-> <<"2","0","2","4","-","0","1","-","0","5">>,
      archived |-> FALSE, associations |-> a] :
        i \in {Str(<<"d","1">>), Undefined},
        p \in Vary([dealname |-> {Absent, Str(<<"A">>)}]),
        a \in Associations}

\* the record the stream holds before anything is delivered
IdleRaw ==
    [id |-> Undefined, properties |-> NoProps,
     createdAt |-> <<>>, updatedAt |-> <<>>, archived |-> FALSE,
     associations |-> [present |-> FALSE, contacts |-> <<>>, companies |-> <<>>]]

----------------------------------------------------------------------------
(* The sync driver, syncHubSpotDeals *)

\* the failures the connector raises from connect() and streamDeals()
ConnectorErrors == {"AuthFailure", "RemoteUnavailable"}

NoSummary == [reported |-> FALSE, total |-> 0, succeeded |-> 0, errors |-> 0]

\* the outcome of one POST: ok, a response that is not ok, or fetch throwing
Responses == {"ok", "not_ok", "throws"}

\* records streamDeals may yield: properties that are null, undefined, empty or
\* a string, a record without properties, an archived record
SyncDeals ==
    {[id |-> Str(<<"d","1">>), hasProperties |-> TRUE, properties |-> p,
      createdAt |-> <<"2","0","2","4","-","0","1","-","0","2">>,
      updatedAt |-> <<"2","0","2","4","-","0","1","-","0","5">>,
      archived |-> FALSE] :
        p \in Vary([dealname |-> {Null, Str(<<>>), Str(<<"A">>)},
                    amount |-> {Absent, Undefined, Str(<<"5">>)}])}
    \cup
    {[id |-> Str(<<"d","2">>), hasProperties |-> FALSE, properties |-> NoProps,
      createdAt |-> <<"2","0","2","4","-","0","1","-","0","2">>,
      updatedAt |-> <<"2","0","2","4","-","0","1","-","0","5">>,
      archived |-> TRUE]}

\* deal.properties || {}
DealProperties(deal) == IF deal.hasProperties THEN deal.properties ELSE NoProps

\* faulty variant of CleanProperties: the empty string is kept
CleanPropertiesKeepsEmpty(deal) ==
    LET props == DealProperties(deal)
    IN [k \in DOMAIN props |->
          IF /\ props[k].tag # "absent"
             /\ props[k].tag # "null" /\ props[k].tag # "undefined"
          THEN JSString(props[k]) ELSE Absent]
\* cleanProperties: the entries that are not null, undefined or ""
CleanProperties(deal) ==
    LET props == DealProperties(deal)
    IN [k \in DOMAIN props |->
          IF /\ props[k].tag # "absent"
             /\ props[k].tag # "null" /\ props[k].tag # "undefined"
             /\ props[k] # Str(<<>>)
          THEN JSString(props[k]) ELSE Absent]

\* dealData, the body posted to /ingest/HubSpotDealRaw
DealData(deal) ==
    [id |-> deal.id,
     properties |-> CleanProperties(deal),
     createdAt |-> deal.createdAt,
     updatedAt |-> deal.updatedAt,
     archived |-> deal.archived,
     associations |-> [contacts |-> <<>>, companies |-> <<>>]]

\* the outer catch: log "HubSpot sync failed" and re-throw
SyncFailed(err) ==
    /\ pc' = "Failed"
    /\ thrown' = err
    /\ UNCHANGED <<connState, disconnectCalls, summary>>

\* faulty variant of CatchIngestError: the error is re-thrown
CatchIngestErrorRethrows ==
    /\ errorCount' = errorCount + 1
    /\ pc' = "Failed"
    /\ thrown' = "ForwardingError"
\* an inner catch that continues without counting the error
CatchIngestErrorUncounted ==
    /\ errorCount' = errorCount
    /\ pc' = "Streaming"
    /\ thrown' = thrown

\* the inner catch: count the error, log it, continue with the next record
CatchIngestError ==
    /\ errorCount' = errorCount + 1
    /\ pc' = "Streaming"
    /\ thrown' = thrown

\* the token check, createHubSpotConnector() and connector.initialize(...)
Start ==
    /\ pc = "Idle"
    /\ IF ~tokenSet
       THEN /\ pc' = "Failed"
            /\ thrown' = "MissingToken"
            /\ connState' = connState
       ELSE /\ pc' = "Connecting"
            /\ thrown' = thrown
            /\ connState' = "initialized"
    /\ UNCHANGED <<tokenSet, connectCalls, disconnectCalls, yielded, dealCount,
                   successCount, errorCount, requests, summary, notSync>>

\* await connector.connect(): it resolves ("ok"), or rejects with a connector
\* error
Connect(res) ==
    /\ pc = "Connecting"
    /\ connectCalls' = connectCalls + 1
    /\ IF res = "ok"
       THEN /\ pc' = "Streaming"
            /\ connState' = "connected"
            /\ UNCHANGED <<thrown, disconnectCalls, summary>>
       ELSE SyncFailed(res)
    /\ UNCHANGED <<tokenSet, yielded, dealCount, successCount, errorCount, requests,
                   notSync>>

\* one iteration of the for-await loop: streamDeals yields deal, the driver
\* cleans its properties and posts it; resp is what fetch does with the POST
PullAndForward(deal, resp) ==
    /\ pc = "Streaming"
    /\ yielded < MaxRecords
    /\ yielded' = yielded + 1
    /\ dealCount' = dealCount + 1
    /\ requests' = Append(requests, [deal |-> deal, body |-> DealData(deal),
                                     response |-> resp])
    /\ IF resp = "ok"
       THEN /\ successCount' = successCount + 1
            /\ UNCHANGED <<errorCount, pc, thrown>>
       ELSE /\ CatchIngestError
            /\ UNCHANGED successCount
    /\ UNCHANGED <<tokenSet, connState, connectCalls, disconnectCalls, summary,
                   notSync>>

\* streamDeals rejects while the loop awaits the next record
StreamFails(err) ==
    /\ pc = "Streaming"
    /\ SyncFailed(err)
    /\ UNCHANGED <<tokenSet, connectCalls, yielded, dealCount, successCount,
                   errorCount, requests, notSync>>

\* a driver that ends the run when the loop ends, without disconnect()
StreamEndsWithoutDisconnect ==
    /\ pc = "Streaming"
    /\ pc' = "Completed"
    /\ UNCHANGED <<tokenSet, connState, connectCalls, disconnectCalls, yielded,
                   dealCount, successCount, errorCount, requests, summary, thrown,
                   notSync>>

\* streamDeals is exhausted: the loop ends
StreamEnds ==
    /\ pc = "Streaming"
    /\ pc' = "Disconnecting"
    /\ UNCHANGED <<tokenSet, connState, connectCalls, disconnectCalls, yielded,
                   dealCount, successCount, errorCount, requests, summary, thrown,
                   notSync>>

\* await connector.disconnect(), then the "Final stats" line
Disconnect ==
    /\ pc = "Disconnecting"
    /\ disconnectCalls' = disconnectCalls + 1
    /\ connState' = "disconnected"
    /\ summary' = [reported |-> TRUE, total |-> dealCount,
                   succeeded |-> successCount, errors |-> errorCount]
    /\ pc' = "Completed"
    /\ UNCHANGED <<tokenSet, connectCalls, yielded, dealCount, successCount,
                   errorCount, requests, thrown, notSync>>

----------------------------------------------------------------------------
(* The transform stage *)

\* the clock advances
Tick ==
    /\ now < Clock0 + MaxTicks
    /\ now' = now + 1
    /\ UNCHANGED <<raw, deliveries, dealStream, dlq, batch, dlqSeen, notTransform>>

\* the transform runs on rawDeal: the result goes to the HubSpotDeal stream, a
\* thrown error sends the record to the dead-letter queue
Route(rawDeal) ==
    IF TransformThrows(rawDeal)
    THEN /\ dlq' = Append(dlq, DeadLetter(rawDeal, "TypeError", now))
         /\ UNCHANGED dealStream
    ELSE /\ dealStream' = dealStream \o Emitted(rawDeal, now)
         /\ UNCHANGED dlq

\* the stream hands raw to the transform (once more, on a redelivery)
Deliver ==
    /\ deliveries < MaxDeliveries
    /\ deliveries' = deliveries + 1
    /\ Route(raw)
    /\ UNCHANGED <<raw, now, batch, dlqSeen, notTransform>>

\* the stream hands the next record of the batch to the transform
Consume ==
    /\ deliveries < Len(batch)
    /\ raw' = batch[deliveries + 1]
    /\ deliveries' = deliveries + 1
    /\ Route(batch[deliveries + 1])
    /\ UNCHANGED <<now, batch, dlqSeen, notTransform>>

\* the dead-letter consumer logs the next entry of the queue; it writes to no
\* stream
DeadLetterConsumer ==
    /\ dlqSeen < Len(dlq)
    /\ dlqSeen' = dlqSeen + 1
    /\ UNCHANGED <<raw, now, deliveries, dealStream, dlq, batch, notTransform>>

----------------------------------------------------------------------------
(* The workflow trigger API, HubSpotWorkflowTriggerApi *)

HubspotDataSync == <<"h","u","b","s","p","o","t","D","a","t","a","S","y","n","c">>
TimedOut == <<"t","i","m","e","d"," ","o","u","t">>
TokenRequired == <<"H","U","B","S","P","O","T","_","T","O","K","E","N"," ","e","n","v","i","r","o","n","m","e","n","t"," ","v","a","r","i","a","b","l","e"," ","i","s"," ","r","e","q","u","i","r","e","d"," ","f","o","r"," ","w","o","r","k","f","l","o","w"," ","e","x","e","c","u","t","i","o","n">>
TimeoutMessage == <<"W","o","r","k","f","l","o","w"," ","e","x","e","c","u","t","i","o","n"," ","t","i","m","e","d"," ","o","u","t"," ","a","f","t","e","r"," ","3","0","0"," ","s","e","c","o","n","d","s">>
UnknownWorkflow(workflowName) ==
    <<"U","n","k","n","o","w","n"," ","w","o","r","k","f","l","o","w",":"," ">> \o workflowName \o <<"."," ","A","v","a","i","l","a","b","l","e"," ","w","o","r","k","f","l","o","w","s",":"," ","h","u","b","s","p","o","t","D","a","t","a","S","y","n","c">>

WorkflowNames == {HubspotDataSync, <<"o","t","h","e","r">>}

\* the parameters of a call; timeoutSeconds keeps its default
TriggerParams ==
    [workflowName : WorkflowNames, force : BOOLEAN, waitForCompletion : BOOLEAN]

\* the messages a failed workflow execution rejects with: the connector's
\* failures, one of them worded as a timeout of the remote
SyncErrors ==
    {<<"A","u","t","h","F","a","i","l","u","r","e">>, <<"R","e","m","o","t","e","U","n","a","v","a","i","l","a","b","l","e">>, <<"R","e","m","o","t","e","U","n","a","v","a","i","l","a","b","l","e",":"," ","r","e","q","u","e","s","t"," ","t","i","m","e","d"," ","o","u","t">>}

NoResponse == [given |-> FALSE, success |-> FALSE, status |-> "none", error |-> <<>>]
Started == [given |-> TRUE, success |-> TRUE, status |-> "started", error |-> <<>>]
Completed == [given |-> TRUE, success |-> TRUE, status |-> "completed", error |-> <<>>]

\* the outer catch: the trigger itself failed
TriggerFailure(message) ==
    [given |-> TRUE, success |-> FALSE, status |-> "failed", error |-> message]

\* a catch that reports the run as completed
WaitFailureReportsCompleted(message) == Completed

\* the catch around Promise.race: a timeout by the wording of the message, a
\* failure otherwise
WaitFailure(message) ==
    IF Includes(message, TimedOut)
    THEN [given |-> TRUE, success |-> FALSE, status |-> "timeout", error |-> message]
    ELSE [given |-> TRUE, success |-> FALSE, status |-> "failed", error |-> message]

Running == {e \in DOMAIN executions : executions[e].state = "running"}

\* a trigger that refuses to start a second execution unless forced
TriggerErrorSingleFlight(params) ==
    IF ~tokenSet THEN TokenRequired
    ELSE IF params.workflowName # HubspotDataSync THEN UnknownWorkflow(params.workflowName)
    ELSE IF ~params.force /\ Running # {} THEN <<"a","l","r","e","a","d","y"," ","r","u","n","n","i","n","g">>
    ELSE <<>>

\* a trigger that checks the token and takes any workflow name
TriggerErrorTokenOnly(params) ==
    IF ~tokenSet THEN TokenRequired ELSE <<>>

\* the error the handler throws before it starts anything, <<>> for none;
\* force is read from the parameters and never used
TriggerError(params) ==
    IF ~tokenSet THEN TokenRequired
    ELSE IF params.workflowName # HubspotDataSync THEN UnknownWorkflow(params.workflowName)
    ELSE <<>>

\* one call of the handler, up to its first await or its return
Invoke(i, params) ==
    /\ invocations[i].pc = "idle"
    /\ \A j \in 1..(i - 1) : invocations[j].pc # "idle"
    /\ IF TriggerError(params) # <<>>
       THEN /\ invocations' = [invocations EXCEPT ![i] =
                   [pc |-> "done", params |-> params, timerFired |-> FALSE,
                    response |-> TriggerFailure(TriggerError(params))]]
            /\ UNCHANGED executions
       ELSE /\ executions' = Append(executions, [by |-> i, state |-> "running", error |-> <<>>])
            /\ invocations' = [invocations EXCEPT ![i] =
                   IF params.waitForCompletion
                   THEN [pc |-> "waiting", params |-> params, timerFired |-> FALSE,
                         response |-> NoResponse]
                   ELSE [pc |-> "done", params |-> params, timerFired |-> FALSE,
                         response |-> Started]]
    /\ UNCHANGED <<backgroundLog, tokenSet, notTrigger>>

\* the workflow execution ends and its promise settles: a waiting handler
\* returns its response, a fire-and-forget callback logs
ExecutionEnds(e, error) ==
    /\ e \in Running
    /\ executions' = [executions EXCEPT ![e] =
           [by |-> @.by, state |-> IF error = <<>> THEN "completed" ELSE "failed",
            error |-> error]]
    /\ LET i == executions[e].by
       IN IF invocations[i].pc = "waiting"
          THEN /\ invocations' = [invocations EXCEPT ![i].pc = "done",
                      ![i].response = IF error = <<>> THEN Completed ELSE WaitFailure(error)]
               /\ UNCHANGED backgroundLog
          ELSE /\ backgroundLog' =
                      IF invocations[i].params.waitForCompletion
                      THEN backgroundLog
                      ELSE Append(backgroundLog, [execution |-> e,
                               failed |-> error # <<>>])
               /\ UNCHANGED invocations
    /\ UNCHANGED <<tokenSet, notTrigger>>

\* the timer of a waiting handler fires before the execution ends
TimerFires(i) ==
    /\ invocations[i].pc = "waiting"
    /\ invocations' = [invocations EXCEPT ![i].pc = "done", ![i].timerFired = TRUE,
           ![i].response = WaitFailure(TimeoutMessage)]
    /\ UNCHANGED <<executions, backgroundLog, tokenSet, notTrigger>>

----------------------------------------------------------------------------
(* The rate limiter of the connector: a token bucket *)

\* tokens are counted in units of 1/TicksPerSecond of a token, so that one
\* tick refills refillPerSecond units
OneToken == TicksPerSecond

Min(a, b) == IF a < b THEN a ELSE b

\* a budget as initialize() sets it up: full
FullBudget(capacity, refillPerSecond) ==
    [capacity |-> capacity, tokens |-> capacity * OneToken,
     refillPerSecond |-> refillPerSecond, lastRefill |-> 0]

\* a refill that forgets the capacity
RefillUncapped(b, t) ==
    [b EXCEPT !.tokens = b.tokens + (t - b.lastRefill) * b.refillPerSecond,
              !.lastRefill = t]

\* the lazy refill at time t: proportional to the time since lastRefill,
\* capped at the capacity
Refill(b, t) ==
    [b EXCEPT !.tokens = Min(b.capacity * OneToken,
                             b.tokens + (t - b.lastRefill) * b.refillPerSecond),
              !.lastRefill = t]

\* a check that admits on any fraction of a token
AdmitsOnFraction(b) == b.tokens > 0

\* the admission check on a refilled budget: at least one token
Admits(b) == b.tokens >= OneToken

TakeToken(b) == [b EXCEPT !.tokens = b.tokens - OneToken]

\* the admission check of call c, made at calledAt, in one step: refill, then
\* consume a token and return, or wait
AdmissionCheck(c, calledAt) ==
    LET b == Refill(bucket, clock)
    IN IF Admits(b)
       THEN /\ bucket' = TakeToken(b)
            /\ calls' = [calls EXCEPT ![c] =
                   [pc |-> "returned", calledAt |-> calledAt, returnedAt |-> clock]]
       ELSE /\ bucket' = b
            /\ calls' = [calls EXCEPT ![c] =
                   [pc |-> "waiting", calledAt |-> calledAt, returnedAt |-> 0]]

\* a flow calls acquire()
Acquire(c) ==
    /\ calls[c].pc = "idle"
    /\ \A d \in 1..(c - 1) : calls[d].pc # "idle"
    /\ AdmissionCheck(c, clock)
    /\ UNCHANGED <<clock, notLimiter>>

\* a waiting acquire() wakes up and checks again
Recheck(c) ==
    /\ calls[c].pc = "waiting"
    /\ AdmissionCheck(c, calls[c].calledAt)
    /\ UNCHANGED <<clock, notLimiter>>

\* time passes
Elapse ==
    /\ clock < MaxClock
    /\ clock' = clock + 1
    /\ UNCHANGED <<bucket, calls, notLimiter>>

----------------------------------------------------------------------------
(* The pager of the connector: fetchPage and its retries *)

\* what the remote answers to one call: a page, a rate-limit response, a
\* transient server error, a rejection of the credentials
RemoteResponses == {"ok", "rate_limited", "server_error", "unauthorized"}

\* a pager that retries whatever is no page
RetryableAlsoUnauthorized(resp) == resp # "ok"

\* the responses fetchPage retries
Retryable(resp) == resp \in {"rate_limited", "server_error"}

\* the delay before attempt n + 1: exponential in the attempts made
Backoff(n) == 2 ^ (n - 1)

NoFetch(bound) ==
    [pc |-> "idle", bound |-> bound, acquires |-> 0, remoteCalls |-> 0,
     responses |-> <<>>, delay |-> 0, result |-> "none"]

\* fetchPage is called
FetchPage ==
    /\ fetch.pc = "idle"
    /\ fetch' = [fetch EXCEPT !.pc = "ready"]
    /\ UNCHANGED notPager

\* acquire() returns and the remote call is made; resp is the remote's answer
RemoteCall(resp) ==
    /\ fetch.pc = "ready"
    /\ LET n == fetch.remoteCalls + 1
       IN fetch' = [fetch EXCEPT
              !.acquires = @ + 1,
              !.remoteCalls = n,
              !.responses = Append(@, resp),
              !.pc = IF Retryable(resp) /\ n < fetch.bound THEN "backoff" ELSE "done",
              !.delay = IF Retryable(resp) /\ n < fetch.bound THEN Backoff(n) ELSE 0,
              !.result = IF resp = "ok" THEN "ok"
                         ELSE IF Retryable(resp)
                              THEN IF n < fetch.bound THEN "none" ELSE "RemoteUnavailable"
                              ELSE "AuthFailure"]
    /\ UNCHANGED notPager

\* the backoff delay is over: the next attempt
BackoffEnds ==
    /\ fetch.pc = "backoff"
    /\ fetch' = [fetch EXCEPT !.pc = "ready", !.delay = 0]
    /\ UNCHANGED notPager

----------------------------------------------------------------------------
(* The connector core: lifecycle and a lazy stream over the pages *)

\* a remote source whose page p holds sizes[p] records; every page but the
\* last names the next page as its cursor, the last has no cursor (0)
RemoteOf(sizes) ==
    [p \in DOMAIN sizes |->
        [records |-> [i \in 1..sizes[p] |-> <<p, i>>],
         nextCursor |-> IF p < Len(sizes) THEN p + 1 ELSE 0]]

Remotes ==
    {RemoteOf(sizes) : sizes \in UNION {[1..n -> 0..MaxPageSize] : n \in 1..MaxPages}}

NewConnector == [state |-> "created", held |-> FALSE, disconnects |-> 0]

NoStream ==
    [pc |-> "none", cursor |-> 0, buffer |-> <<>>, out |-> <<>>, fetches |-> 0,
     inFlight |-> 0, error |-> "none"]

\* a pager that loses the cursor of the page
NextCursorDropped(page) == 0

\* the cursor the stream continues with after a page
NextCursor(page) == page.nextCursor

\* initialize(config): validates the configuration, no I/O
ConnectorInitialize ==
    /\ connector.state = "created"
    /\ connector' = [connector EXCEPT !.state = "initialized"]
    /\ UNCHANGED <<remote, stream, notConnector>>

\* connect(): the liveness check passes, or the credentials are rejected
ConnectorConnect(res) ==
    /\ connector.state = "initialized"
    /\ connector' = IF res = "ok"
                    THEN [connector EXCEPT !.state = "connected", !.held = TRUE]
                    ELSE connector
    /\ UNCHANGED <<remote, stream, notConnector>>

\* disconnect(): releases what is held, in whatever state the connector is
ConnectorDisconnect ==
    /\ connector.disconnects < MaxDisconnects
    /\ connector' = [state |-> "disconnected", held |-> FALSE,
                     disconnects |-> connector.disconnects + 1]
    /\ UNCHANGED <<remote, stream, notConnector>>

\* a streamX() that does not look at the connector's state
StreamOpenUnchecked ==
    /\ stream.pc = "none"
    /\ stream' = [stream EXCEPT !.pc = "open", !.cursor = 1]
    /\ UNCHANGED <<connector, remote, notConnector>>

\* the consumer calls streamX(): NotConnected unless the connector is connected
StreamOpen ==
    /\ stream.pc = "none"
    /\ stream' = IF connector.state = "connected"
                 THEN [stream EXCEPT !.pc = "open", !.cursor = 1]
                 ELSE [stream EXCEPT !.pc = "failed", !.error = "NotConnected"]
    /\ UNCHANGED <<connector, remote, notConnector>>

\* the consumer asks for the next record
StreamPull ==
    /\ stream.pc = "open"
    /\ stream' = IF connector.state = "connected"
                 THEN [stream EXCEPT !.pc = "pulling"]
                 ELSE [stream EXCEPT !.pc = "failed", !.error = "NotConnected",
                                     !.buffer = <<>>]
    /\ UNCHANGED <<connector, remote, notConnector>>

\* the connector was disconnected while the consumer waits for a record
StreamNotConnected ==
    /\ stream.pc = "pulling"
    /\ connector.state # "connected"
    /\ stream' = [stream EXCEPT !.pc = "failed", !.error = "NotConnected",
                                !.buffer = <<>>]
    /\ UNCHANGED <<connector, remote, notConnector>>

\* a record of the page at hand is yielded
StreamYield ==
    /\ stream.pc = "pulling"
    /\ connector.state = "connected"
    /\ stream.buffer # <<>>
    /\ stream' = [stream EXCEPT !.pc = "open", !.out = Append(@, Head(stream.buffer)),
                                !.buffer = Tail(@)]
    /\ UNCHANGED <<connector, remote, notConnector>>

\* a stream that fetches the next page as soon as it can
PrefetchWanted == stream.pc \in {"open", "pulling"} /\ stream.cursor # 0

\* the next page is wanted: the consumer waits, the page at hand is used up
\* and the last page fetched named a next one
FetchWanted == stream.pc = "pulling" /\ stream.buffer = <<>> /\ stream.cursor # 0

\* the stream starts the fetch of the next page
PageFetchStart ==
    /\ FetchWanted
    /\ connector.state = "connected"
    /\ stream' = [stream EXCEPT !.pc = "fetching", !.fetches = @ + 1,
                                !.inFlight = @ + 1]
    /\ UNCHANGED <<connector, remote, notConnector>>

\* the page arrives; a connector disconnected meanwhile fails the stream
PageFetchReturns ==
    /\ stream.pc = "fetching"
    /\ stream' = IF connector.state = "connected"
                 THEN [stream EXCEPT !.pc = "pulling",
                                     !.inFlight = @ - 1,
                                     !.buffer = @ \o remote[stream.cursor].records,
                                     !.cursor = NextCursor(remote[stream.cursor])]
                 ELSE [stream EXCEPT !.pc = "failed", !.error = "NotConnected",
                                     !.inFlight = 0, !.buffer = <<>>]
    /\ UNCHANGED <<connector, remote, notConnector>>

\* the fetch fails for good with a connector error
PageFetchFails(err) ==
    /\ stream.pc = "fetching"
    /\ stream' = [stream EXCEPT !.pc = "failed", !.error = err, !.inFlight = 0]
    /\ UNCHANGED <<connector, remote, notConnector>>

\* the page at hand is used up and the last page had no cursor: the sequence
\* ends
SequenceEnds ==
    /\ stream.pc = "pulling"
    /\ connector.state = "connected"
    /\ stream.buffer = <<>>
    /\ stream.cursor = 0
    /\ stream' = [stream EXCEPT !.pc = "done"]
    /\ UNCHANGED <<connector, remote, notConnector>>

\* the consumer abandons the sequence between two records
StreamAbandon ==
    /\ stream.pc = "open"
    /\ stream' = [stream EXCEPT !.pc = "abandoned", !.buffer = <<>>]
    /\ UNCHANGED <<connector, remote, notConnector>>

----------------------------------------------------------------------------
(* The consumption APIs: deals analytics and deal lookup *)

\* Number.prototype.toString for the naturals
RECURSIVE NumberToString(_)
NumberToString(n) ==
    IF n < 10 THEN <<Digits[n + 1]>>
    ELSE NumberToString(n \div 10) \o <<Digits[(n % 10) + 1]>>

BooleanToString(b) == IF b THEN <<"t","r","u","e">> ELSE <<"f","a","l","s","e">>

\* an optional number or boolean of the query parameters
Given(v) == [def |-> TRUE, v |-> <<v>>]
NotGiven == [def |-> FALSE, v |-> <<>>]
\* the default of a destructured parameter
Default(p, d) == IF p.def THEN p.v[1] ELSE d

\* the rows of the HubSpotDeal table
Deals ==
    {[id |-> <<"a">>, dealName |-> <<"b">>, ownerId |-> <<"o">>, stage |-> <<"w","o","n">>,
      pipeline |-> <<"p","1">>, month |-> <<"2","0","2","4","0","1">>, currency |-> <<"U","S","D">>, isArchived |-> FALSE],
     [id |-> <<"a",":","b">>, dealName |-> <<"x">>, ownerId |-> <<"o">>, stage |-> <<"o","p","e","n">>,
      pipeline |-> <<"p","1">>, month |-> <<"2","0","2","4","0","2">>, currency |-> <<"U","S","D">>, isArchived |-> TRUE],
     [id |-> <<"c">>, dealName |-> <<"b">>, ownerId |-> <<"q">>, stage |-> <<"o","p","e","n">>,
      pipeline |-> <<"p","2">>, month |-> <<"2","0","2","4","0","1">>, currency |-> <<"E","U","R">>, isArchived |-> FALSE]}

\* ---- deals analytics ----

GroupByOf(params) ==
    IF params.groupBy.tag = "string" THEN params.groupBy.s ELSE <<"s","t","a","g","e">>

\* the cache key of an analytics request
AnalyticsCacheKey(params) ==
    <<"h","u","b","s","p","o","t","-","d","e","a","l","s","-","a","n","a","l","y","t","i","c","s",":">> \o GroupByOf(params) \o <<":">>
        \o NumberToString(Default(params.limit, 10)) \o <<":">>
        \o BooleanToString(Default(params.includeArchived, FALSE)) \o <<":">>
        \o Or(params.currency, Str(<<"a","l","l">>)).s

\* the WHERE clause: isArchived = includeArchived, and the currency when given
AnalyticsWhere(params, deal) ==
    /\ deal.isArchived = Default(params.includeArchived, FALSE)
    /\ Truthy(params.currency) => deal.currency = params.currency.s

\* the same clause, one query per branch on currency
AnalyticsWhereBranches(params, deal) ==
    IF Truthy(params.currency)
    THEN deal.isArchived = Default(params.includeArchived, FALSE)
             /\ deal.currency = params.currency.s
    ELSE deal.isArchived = Default(params.includeArchived, FALSE)

GroupField(groupBy, deal) ==
    IF groupBy = <<"p","i","p","e","l","i","n","e">> THEN deal.pipeline
    ELSE IF groupBy = <<"m","o","n","t","h">> THEN deal.month
    ELSE deal.stage

\* the rows of the aggregation over the deals selected, one for each value of
\* the grouping field; LIMIT is kept as written
Aggregate(params, selected) ==
    [limit |-> Default(params.limit, 10),
     rows |-> {[groupField |-> g,
                deals |-> {d.id : d \in {e \in selected :
                                            GroupField(GroupByOf(params), e) = g}}] :
                 g \in {GroupField(GroupByOf(params), d) : d \in selected}}]

AnalyticsQuery(params) ==
    Aggregate(params, {d \in Deals : AnalyticsWhere(params, d)})

AnalyticsQueryBranches(params) ==
    Aggregate(params, {d \in Deals : AnalyticsWhereBranches(params, d)})

\* ---- deal lookup ----

\* the cache key of a lookup request
LookupCacheKey(params) ==
    <<"h","u","b","s","p","o","t","-","d","e","a","l","-","l","o","o","k","u","p",":">> \o Or(params.dealId, Str(<<>>)).s \o <<":">>
        \o Or(params.dealName, Str(<<>>)).s \o <<":">>
        \o Or(params.ownerId, Str(<<>>)).s \o <<":">>
        \o Or(params.stage, Str(<<>>)).s \o <<":">>
        \o NumberToString(Default(params.limit, 20))

Filter(field, value) == [field |-> field, value |-> value]

\* the conditions of the query composed from optional clauses
LookupFilters(params) ==
    IF Truthy(params.dealId) THEN {Filter("id", params.dealId.s)}
    ELSE IF Truthy(params.dealName)
    THEN {Filter("dealName", params.dealName.s)}
           \cup (IF Truthy(params.ownerId)
                 THEN {Filter("ownerId", params.ownerId.s)} ELSE {})
           \cup (IF Truthy(params.stage)
                 THEN {Filter("stage", params.stage.s)} ELSE {})
    ELSE (IF Truthy(params.ownerId)
          THEN {Filter("ownerId", params.ownerId.s)} ELSE {})
           \cup (IF Truthy(params.stage)
                 THEN {Filter("stage", params.stage.s)} ELSE {})

\* a branch enumeration that lacks the branch for dealName with stage
LookupFiltersBranchMissing(params) ==
    IF Truthy(params.dealId) THEN {Filter("id", params.dealId.s)}
    ELSE IF Truthy(params.dealName) /\ Truthy(params.ownerId) /\ Truthy(params.stage)
    THEN {Filter("dealName", params.dealName.s), Filter("ownerId", params.ownerId.s),
          Filter("stage", params.stage.s)}
    ELSE IF Truthy(params.dealName) /\ Truthy(params.ownerId)
    THEN {Filter("dealName", params.dealName.s), Filter("ownerId", params.ownerId.s)}
    ELSE IF Truthy(params.dealName)
    THEN {Filter("dealName", params.dealName.s)}
    ELSE IF Truthy(params.ownerId) /\ Truthy(params.stage)
    THEN {Filter("ownerId", params.ownerId.s), Filter("stage", params.stage.s)}
    ELSE IF Truthy(params.ownerId) THEN {Filter("ownerId", params.ownerId.s)}
    ELSE IF Truthy(params.stage) THEN {Filter("stage", params.stage.s)}
    ELSE {}

\* the conditions of the query picked from the enumerated branches
LookupFiltersBranches(params) ==
    IF Truthy(params.dealId) THEN {Filter("id", params.dealId.s)}
    ELSE IF Truthy(params.dealName) /\ Truthy(params.ownerId) /\ Truthy(params.stage)
    THEN {Filter("dealName", params.dealName.s), Filter("ownerId", params.ownerId.s),
          Filter("stage", params.stage.s)}
    ELSE IF Truthy(params.dealName) /\ Truthy(params.ownerId)
    THEN {Filter("dealName", params.dealName.s), Filter("ownerId", params.ownerId.s)}
    ELSE IF Truthy(params.dealName) /\ Truthy(params.stage)
    THEN {Filter("dealName", params.dealName.s), Filter("stage", params.stage.s)}
    ELSE IF Truthy(params.dealName)
    THEN {Filter("dealName", params.dealName.s)}
    ELSE IF Truthy(params.ownerId) /\ Truthy(params.stage)
    THEN {Filter("ownerId", params.ownerId.s), Filter("stage", params.stage.s)}
    ELSE IF Truthy(params.ownerId) THEN {Filter("ownerId", params.ownerId.s)}
    ELSE IF Truthy(params.stage) THEN {Filter("stage", params.stage.s)}
    ELSE {}

\* a row passes a condition: ILIKE '%value%' on dealName, equality elsewhere
Passes(deal, f) ==
    IF f.field = "dealName"
    THEN Includes(ToLowerCase(deal.dealName), ToLowerCase(f.value))
    ELSE deal[f.field] = f.value

\* the result of a lookup query with the conditions given; LIMIT is kept as
\* written
LookupQuery(params, filters) ==
    [limit |-> Default(params.limit, 20),
     filters |-> filters,
     rows |-> {d.id : d \in {e \in Deals : \A f \in filters : Passes(e, f)}}]

\* ---- the handlers ----

NoResponseYet ==
    [request |-> [handler |-> "none"], value |-> [rows |-> {}],
     fromCache |-> FALSE, writer |-> [handler |-> "none"]]

CacheHas(key) == \E e \in cache : e.key = key
CacheGet(key) == CHOOSE e \in cache : e.key = key
CacheSet(key, value, request) ==
    {e \in cache : e.key # key}
        \cup {[key |-> key, value |-> value, writer |-> request]}

\* a response taken from a cache entry
Cached(request, entry) ==
    [request |-> request, value |-> entry.value, fromCache |-> TRUE,
     writer |-> entry.writer]
\* a response computed by a query
Fresh(request, value) ==
    [request |-> request, value |-> value, fromCache |-> FALSE, writer |-> request]

\* the cached analytics handler: a non-empty cached array is returned as is
AnalyticsApi(params) ==
    /\ requestCount < MaxRequests
    /\ requestCount' = requestCount + 1
    /\ LET request == [handler |-> "analytics", cached |-> TRUE, params |-> params]
           key == AnalyticsCacheKey(params)
       IN IF CacheHas(key) /\ CacheGet(key).value.rows # {}
          THEN /\ response' = Cached(request, CacheGet(key))
               /\ UNCHANGED cache
          ELSE /\ response' = Fresh(request, AnalyticsQuery(params))
               /\ cache' = CacheSet(key, AnalyticsQuery(params), request)
    /\ UNCHANGED notApi

\* the analytics handler without a cache
AnalyticsApiUncached(params) ==
    /\ requestCount < MaxRequests
    /\ requestCount' = requestCount + 1
    /\ response' = Fresh([handler |-> "analytics", cached |-> FALSE, params |-> params],
                         AnalyticsQueryBranches(params))
    /\ UNCHANGED <<cache, notApi>>

\* the cached lookup handler: any cached array is returned as is
LookupApi(params) ==
    /\ requestCount < MaxRequests
    /\ requestCount' = requestCount + 1
    /\ LET request == [handler |-> "lookup", cached |-> TRUE, params |-> params]
           key == LookupCacheKey(params)
       IN IF CacheHas(key)
          THEN /\ response' = Cached(request, CacheGet(key))
               /\ UNCHANGED cache
          ELSE /\ response' = Fresh(request, LookupQuery(params, LookupFilters(params)))
               /\ cache' = CacheSet(key, LookupQuery(params, LookupFilters(params)),
                                    request)
    /\ UNCHANGED notApi

\* the lookup handler without a cache
LookupApiUncached(params) ==
    /\ requestCount < MaxRequests
    /\ requestCount' = requestCount + 1
    /\ response' = Fresh([handler |-> "lookup", cached |-> FALSE, params |-> params],
                         LookupQuery(params, LookupFiltersBranches(params)))
    /\ UNCHANGED <<cache, notApi>>

\* ---- the requests of the model ----

NoAnalyticsParams ==
    [groupBy |-> Absent, limit |-> NotGiven, includeArchived |-> NotGiven,
     currency |-> Absent]

\* every groupBy with every includeArchived, and the currencies with a limit
AnalyticsRequests ==
    {[NoAnalyticsParams EXCEPT !.groupBy = g, !.includeArchived = a] :
        g \in {Absent, Str(<<"s","t","a","g","e">>), Str(<<"p","i","p","e","l","i","n","e">>), Str(<<"m","o","n","t","h">>)},
        a \in {NotGiven, Given(TRUE), Given(FALSE)}}
    \cup {[NoAnalyticsParams EXCEPT !.currency = c] :
        c \in {Str(<<>>), Str(<<"a","l","l">>), Str(<<"U","S","D">>)}}
    \cup {[NoAnalyticsParams EXCEPT !.limit = Given(5)]}

NoLookupParams ==
    [dealId |-> Absent, dealName |-> Absent, ownerId |-> Absent, stage |-> Absent,
     limit |-> NotGiven]

\* every combination of the four conditions, and values that hold a colon or
\* are empty
LookupRequests ==
    {[NoLookupParams EXCEPT !.dealId = i, !.dealName = n, !.ownerId = o, !.stage = t] :
        i \in {Absent, Str(<<"a">>)}, n \in {Absent, Str(<<"b">>)},
        o \in {Absent, Str(<<"o">>)}, t \in {Absent, Str(<<"o","p","e","n">>)}}
    \cup {[NoLookupParams EXCEPT !.dealId = Str(<<"a",":","b">>)],
          [NoLookupParams EXCEPT !.dealId = Str(<<"a">>), !.dealName = Str(<<"b",":">>)],
          [NoLookupParams EXCEPT !.dealId = Str(<<>>), !.dealName = Str(<<"b">>)],
          [NoLookupParams EXCEPT !.limit = Given(5)]}

----------------------------------------------------------------------------
(* Specifications *)

ApiIdle ==
    /\ cache = {}
    /\ response = NoResponseYet
    /\ requestCount = 0

ConnectorIdle ==
    /\ connector = NewConnector
    /\ remote = <<>>
    /\ stream = NoStream

PagerIdle == fetch = NoFetch(1)

LimiterIdle ==
    /\ bucket = FullBudget(1, 1)
    /\ clock = 0
    /\ calls = [c \in 1..MaxCalls |-> [pc |-> "idle", calledAt |-> 0, returnedAt |-> 0]]

TriggerIdle ==
    /\ invocations = [i \in 1..MaxInvocations |->
           [pc |-> "idle", params |-> [workflowName |-> HubspotDataSync, force |-> FALSE,
                                       waitForCompletion |-> FALSE],
            timerFired |-> FALSE, response |-> NoResponse]]
    /\ executions = <<>>
    /\ backgroundLog = <<>>

SyncIdle ==
    /\ pc = "Idle"
    /\ connState = "created"
    /\ connectCalls = 0
    /\ disconnectCalls = 0
    /\ yielded = 0
    /\ dealCount = 0
    /\ successCount = 0
    /\ errorCount = 0
    /\ requests = <<>>
    /\ summary = NoSummary
    /\ thrown = "none"

TransformIdle ==
    /\ now = Clock0
    /\ deliveries = 0
    /\ dealStream = <<>>
    /\ dlq = <<>>
    /\ dlqSeen = 0

\* the transform on every raw record of the model
TransformInit ==
    /\ raw \in RawDeals
    /\ batch = <<>>
    /\ TransformIdle
    /\ tokenSet = TRUE
    /\ SyncIdle
    /\ TriggerIdle
    /\ LimiterIdle
    /\ PagerIdle
    /\ ConnectorIdle
    /\ ApiIdle

TransformNext == Tick \/ Deliver

TransformSpec == TransformInit /\ [][TransformNext]_vars

\* a batch of raw records, each consumed once, and the dead-letter consumer
PipelineInit ==
    /\ batch \in UNION {[1..n -> BatchDeals] : n \in 0..MaxBatch}
    /\ raw = IdleRaw
    /\ TransformIdle
    /\ tokenSet = TRUE
    /\ SyncIdle
    /\ TriggerIdle
    /\ LimiterIdle
    /\ PagerIdle
    /\ ConnectorIdle
    /\ ApiIdle

PipelineNext == Consume \/ DeadLetterConsumer

PipelineSpec == PipelineInit /\ [][PipelineNext]_vars

\* one run of syncHubSpotDeals
SyncInit ==
    /\ tokenSet \in BOOLEAN
    /\ SyncIdle
    /\ raw = IdleRaw
    /\ batch = <<>>
    /\ TransformIdle
    /\ TriggerIdle
    /\ LimiterIdle
    /\ PagerIdle
    /\ ConnectorIdle
    /\ ApiIdle

SyncNext ==
    \/ Start
    \/ \E res \in {"ok"} \cup ConnectorErrors : Connect(res)
    \/ \E deal \in SyncDeals, resp \in Responses : PullAndForward(deal, resp)
    \/ \E err \in ConnectorErrors : StreamFails(err)
    \/ StreamEnds
    \/ Disconnect

SyncSpec == SyncInit /\ [][SyncNext]_vars

\* calls of the trigger handler and the executions they start
TriggerInit ==
    /\ tokenSet \in BOOLEAN
    /\ TriggerIdle
    /\ SyncIdle
    /\ raw = IdleRaw
    /\ batch = <<>>
    /\ TransformIdle
    /\ LimiterIdle
    /\ PagerIdle
    /\ ConnectorIdle
    /\ ApiIdle

TriggerNext ==
    \/ \E i \in 1..MaxInvocations, params \in TriggerParams : Invoke(i, params)
    \/ \E e \in DOMAIN executions, error \in {<<>>} \cup SyncErrors : ExecutionEnds(e, error)
    \/ \E i \in 1..MaxInvocations : TimerFires(i)

TriggerSpec == TriggerInit /\ [][TriggerNext]_vars

\* concurrent acquire() calls on one limiter, for every rate budget
LimiterInit ==
    /\ \E capacity \in 1..MaxCapacity, refillPerSecond \in 1..MaxRefill :
           bucket = FullBudget(capacity, refillPerSecond)
    /\ clock = 0
    /\ calls = [c \in 1..MaxCalls |-> [pc |-> "idle", calledAt |-> 0, returnedAt |-> 0]]
    /\ tokenSet = TRUE
    /\ TriggerIdle
    /\ SyncIdle
    /\ raw = IdleRaw
    /\ batch = <<>>
    /\ TransformIdle
    /\ PagerIdle
    /\ ConnectorIdle
    /\ ApiIdle

LimiterNext ==
    \/ \E c \in 1..MaxCalls : Acquire(c)
    \/ \E c \in 1..MaxCalls : Recheck(c)
    \/ Elapse

LimiterSpec == LimiterInit /\ [][LimiterNext]_vars

\* one fetchPage call, for every bound on its attempts and every remote
PagerInit ==
    /\ \E bound \in 1..MaxAttempts : fetch = NoFetch(bound)
    /\ tokenSet = TRUE
    /\ TriggerIdle
    /\ SyncIdle
    /\ raw = IdleRaw
    /\ batch = <<>>
    /\ TransformIdle
    /\ LimiterIdle
    /\ ConnectorIdle
    /\ ApiIdle

PagerNext ==
    \/ FetchPage
    \/ \E resp \in RemoteResponses : RemoteCall(resp)
    \/ BackoffEnds

PagerSpec == PagerInit /\ [][PagerNext]_vars

\* the other parts at rest
RestIdle ==
    /\ tokenSet = TRUE
    /\ TriggerIdle
    /\ SyncIdle
    /\ raw = IdleRaw
    /\ batch = <<>>
    /\ TransformIdle
    /\ LimiterIdle
    /\ PagerIdle

\* one connector and one stream over it, for every remote source
ConnectorInit ==
    /\ connector = NewConnector
    /\ remote \in Remotes
    /\ stream = NoStream
    /\ RestIdle
    /\ ApiIdle

ConnectorNext ==
    \/ ConnectorInitialize
    \/ \E res \in {"ok", "AuthFailure"} : ConnectorConnect(res)
    \/ ConnectorDisconnect
    \/ StreamOpen
    \/ StreamPull
    \/ StreamNotConnected
    \/ StreamYield
    \/ PageFetchStart
    \/ PageFetchReturns
    \/ \E err \in ConnectorErrors : PageFetchFails(err)
    \/ SequenceEnds
    \/ StreamAbandon

ConnectorSpec == ConnectorInit /\ [][ConnectorNext]_vars

\* requests to the consumption APIs over one table and one cache
ApiInit ==
    /\ ApiIdle
    /\ RestIdle
    /\ ConnectorIdle

ApiNext ==
    \/ \E params \in AnalyticsRequests : AnalyticsApi(params)
    \/ \E params \in AnalyticsRequests : AnalyticsApiUncached(params)
    \/ \E params \in LookupRequests : LookupApi(params)
    \/ \E params \in LookupRequests : LookupApiUncached(params)

ApiSpec == ApiInit /\ [][ApiNext]_vars

\* the whole system: either part, from its initial state
Init == TransformInit \/ PipelineInit \/ SyncInit \/ TriggerInit \/ LimiterInit
           \/ PagerInit \/ ConnectorInit \/ ApiInit
Next == TransformNext \/ PipelineNext \/ SyncNext \/ TriggerNext \/ LimiterNext
           \/ PagerNext \/ ConnectorNext \/ ApiNext
Spec == Init /\ [][Next]_vars

----------------------------------------------------------------------------
(* Properties of the sync driver (SyncSpec) *)

\* connect() resolved in this run
ConnectSucceeded == connState \in {"connected", "disconnected"}
RunEnded == pc \in {"Completed", "Failed"}

\* C1: every run of syncHubSpotDeals in which connect() succeeded has called
\* connector.disconnect() by the time it ends, also when it ends because
\* streamDeals raised a connector failure.
C1_DisconnectOnEveryExit ==
    (RunEnded /\ ConnectSucceeded) => disconnectCalls >= 1

FailedForwards == {i \in DOMAIN requests : requests[i].response # "ok"}

\* C2: a record whose forwarding fails (fetch throws, or the response is not
\* ok) is counted as an error and never fails the run: every streamed record
\* was posted, the error count is the number of failed posts, a failed run
\* failed in the connector (or for the missing token), and a completed run
\* reports every streamed record.
C2_ForwardFailureTolerated ==
    /\ Len(requests) = yielded
    /\ dealCount = yielded
    /\ errorCount = Cardinality(FailedForwards)
    /\ (pc = "Failed" => thrown \in ConnectorErrors \cup {"MissingToken"})
    /\ (pc = "Completed" => summary.total = yielded)

\* a run that completed after a failed forward was followed by a good one
C2_Witness ==
    /\ pc = "Completed"
    /\ yielded = 2
    /\ requests[1].response = "not_ok"
    /\ requests[2].response = "ok"
    /\ errorCount = 1 /\ successCount = 1

\* C3: every run that started streaming reports its total / succeeded / error
\* counts when it ends, an aborted run as well as a completed one.
C3_SummaryAlwaysReported ==
    (RunEnded /\ ConnectSucceeded) =>
        summary = [reported |-> TRUE, total |-> dealCount,
                   succeeded |-> successCount, errors |-> errorCount]

\* a value that is null, undefined or the empty string, or a missing key
NoValue(v) == v.tag \in {"absent", "null", "undefined"} \/ v = Str(<<>>)

\* C4: the properties of every posted body hold exactly the keys of the
\* streamed record whose value is neither null, undefined nor "", each with
\* the record's value.
C4_ForwardedPropertiesClean ==
    \A i \in DOMAIN requests :
        LET src == DealProperties(requests[i].deal)
            sent == requests[i].body.properties
        IN \A k \in PropKeys :
            IF NoValue(src[k]) THEN sent[k] = Absent ELSE sent[k] = src[k]

\* a record with a null, an empty and a present value has been posted
C4_Witness ==
    \E i \in DOMAIN requests :
        /\ requests[i].deal.properties["dealname"] = Str(<<>>)
        /\ requests[i].deal.properties["amount"] = Str(<<"5">>)
        /\ requests[i].body.properties["amount"] = Str(<<"5">>)
        /\ requests[i].body.properties["dealname"] = Absent

\* where the run stands agrees with what was called on the connector
C17_StateOrder ==
    /\ pc = "Idle" => (connState = "created" /\ connectCalls = 0)
    /\ pc = "Connecting" => (connState = "initialized" /\ connectCalls = 0)
    /\ pc \in {"Idle", "Connecting"} => (yielded = 0 /\ requests = <<>>)
    /\ pc \in {"Streaming", "Disconnecting"} =>
           (connState = "connected" /\ connectCalls = 1 /\ disconnectCalls = 0)
    /\ pc = "Completed" =>
           (connState = "disconnected" /\ connectCalls = 1 /\ disconnectCalls = 1)
    /\ (yielded > 0 \/ requests # <<>>) => ConnectSucceeded
    /\ disconnectCalls <= 1

RunOrder ==
    {<<"Idle", "Connecting">>, <<"Connecting", "Streaming">>,
     <<"Streaming", "Disconnecting">>, <<"Disconnecting", "Completed">>,
     <<"Idle", "Failed">>, <<"Connecting", "Failed">>, <<"Streaming", "Failed">>}

\* what a step of the run may do, given where the run stands
C17_StepOrder ==
    /\ pc' # pc => <<pc, pc'>> \in RunOrder
    /\ connectCalls' # connectCalls => connState = "initialized"
    /\ (yielded' # yielded \/ requests' # requests) =>
           (pc = "Streaming" /\ connState = "connected" /\ connState' = "connected")
    /\ disconnectCalls' # disconnectCalls => pc = "Disconnecting"

\* C17: a sync run goes Idle, Connecting, Streaming, Disconnecting, Completed
\* (or to Failed): initialize() precedes connect(), connect() has completed
\* before the first record is pulled, no record is pulled or forwarded before
\* connect() succeeded or after disconnect(), and a run that completes called
\* disconnect() exactly once, after the stream was exhausted.
C17_RunOrder == [](C17_StateOrder) /\ [][C17_StepOrder]_vars

\* a run has completed after pulling and forwarding a record
C17_Witness ==
    /\ pc = "Completed"
    /\ yielded > 0
    /\ requests # <<>>
    /\ connectCalls = 1
    /\ disconnectCalls = 1

\* the counters add up after every iteration of the loop
C28_CountersAddUp ==
    /\ dealCount = successCount + errorCount
    /\ dealCount = Len(requests)
    /\ successCount = Cardinality({i \in DOMAIN requests : requests[i].response = "ok"})
    /\ summary.reported =>
           (summary.total = summary.succeeded + summary.errors /\ summary.total = dealCount)

\* no step lowers a counter
C28_CountersGrow ==
    /\ dealCount' >= dealCount
    /\ successCount' >= successCount
    /\ errorCount' >= errorCount

\* C28: dealCount = successCount + errorCount after every loop iteration and
\* at the end of the run, the three counters never decrease, and successCount
\* is the number of records the ingestion endpoint answered with ok.
C28_Counters == [](C28_CountersAddUp) /\ [][C28_CountersGrow]_vars

\* a completed run with one record ingested and one in error
C28_Witness ==
    /\ pc = "Completed"
    /\ dealCount = 2
    /\ successCount = 1
    /\ errorCount = 1
    /\ summary.reported

----------------------------------------------------------------------------
(* Properties of the normalizing transform (TransformSpec) *)

RawProp(k) == raw.properties[k]

\* C5: a raw record without id is never emitted on the HubSpotDeal stream:
\* each of its deliveries ends in the dead-letter queue.
C5_MissingIdRejected ==
    (raw.id.tag # "string" /\ deliveries > 0) =>
        (dealStream = <<>> /\ Len(dlq) = deliveries)

\* C6: normalizing the same raw record at any two times gives equal records.
C6_NormalizeIdempotent ==
    \A i, j \in DOMAIN dealStream : dealStream[i] = dealStream[j]

\* a property that is no value or no date
NoDateValue(v) == NoValue(v) \/ ~DateParse(v.s).valid

\* C7: without a createdate that parses, createdAt is the raw record's
\* createdAt; without an hs_lastmodifieddate that parses, lastModifiedAt is
\* the raw record's updatedAt.
C7_DateFallback ==
    \A i \in DOMAIN dealStream :
        /\ NoDateValue(RawProp("createdate")) =>
               dealStream[i].createdAt = DateParse(raw.createdAt)
        /\ NoDateValue(RawProp("hs_lastmodifieddate")) =>
               dealStream[i].lastModifiedAt = DateParse(raw.updatedAt)

\* the string, sign and surrounding white space apart
Unsigned(s) ==
    LET t == SkipWs(s)
    IN IF t # <<>> /\ Head(t) \in {"-", "+"} THEN Tail(t) ELSE t

\* the whole string is a decimal numeral
IsNumeral(s) ==
    Unsigned(s) # <<>> /\ \A i \in DOMAIN Unsigned(s) : IsDigit(Unsigned(s)[i])

\* the string does not begin with a numeral: parseFloat reads no number from
\* it (over the characters of the model, which hold no "." and no "Infinity")
NoNumericPrefix(s) == Unsigned(s) = <<>> \/ ~IsDigit(Head(Unsigned(s)))

\* every delivery of a record that has its associations was normalized
NormalizedEveryDelivery ==
    raw.associations.present => (dlq = <<>> /\ Len(dealStream) = deliveries)

\* C8 (as claimed): an amount that is absent, null, empty or not a number
\* normalizes to 0, without failure.
C8_Original ==
    (NoValue(RawProp("amount")) \/ ~IsNumeral(RawProp("amount").s)) =>
        /\ \A i \in DOMAIN dealStream : dealStream[i].amount = Num(0)
        /\ NormalizedEveryDelivery

\* C8 (amended): an amount that is absent, null, empty or does not begin with
\* a numeral (parseFloat reads no number from it) normalizes to 0, without
\* failure.
C8_AmountDefault ==
    (NoValue(RawProp("amount")) \/ NoNumericPrefix(RawProp("amount").s)) =>
        /\ \A i \in DOMAIN dealStream : dealStream[i].amount = Num(0)
        /\ NormalizedEveryDelivery

\* a record with a non-numeric amount has been normalized, to amount 0
C8_Witness ==
    /\ RawProp("amount") = Str(<<"x">>)
    /\ dealStream # <<>>
    /\ dealStream[1].amount = Num(0)

\* the property is absent or does not parse
NoParse(v) == NoValue(v) \/ NoNumericPrefix(v.s)

\* C9 (as claimed): stageProbability, forecastAmount and projectedAmount are 0
\* when their own property is absent or does not parse, whatever amount is.
C9_Original ==
    \A i \in DOMAIN dealStream :
        /\ NoParse(RawProp("hs_deal_stage_probability")) =>
               dealStream[i].stageProbability = Num(0)
        /\ NoParse(RawProp("hs_forecast_amount")) =>
               dealStream[i].forecastAmount = Num(0)
        /\ NoParse(RawProp("hs_projected_amount")) =>
               dealStream[i].projectedAmount = Num(0)

\* C9 (amended): stageProbability is 0 when hs_deal_stage_probability is
\* absent or does not parse; forecastAmount and projectedAmount are 0 when
\* their own property is present and does not parse, and equal the normalized
\* amount when their own property is absent, null or empty.
C9_NumericDefaults ==
    \A i \in DOMAIN dealStream :
        /\ NoParse(RawProp("hs_deal_stage_probability")) =>
               dealStream[i].stageProbability = Num(0)
        /\ (~NoValue(RawProp("hs_forecast_amount"))
              /\ NoNumericPrefix(RawProp("hs_forecast_amount").s)) =>
               dealStream[i].forecastAmount = Num(0)
        /\ NoValue(RawProp("hs_forecast_amount")) =>
               dealStream[i].forecastAmount = dealStream[i].amount
        /\ (~NoValue(RawProp("hs_projected_amount"))
              /\ NoNumericPrefix(RawProp("hs_projected_amount").s)) =>
               dealStream[i].projectedAmount = Num(0)
        /\ NoValue(RawProp("hs_projected_amount")) =>
               dealStream[i].projectedAmount = dealStream[i].amount

\* a record with an amount and none of the three properties has been normalized
C9_Witness ==
    /\ RawProp("amount") = Str(<<"5">>)
    /\ RawProp("hs_forecast_amount") = Absent
    /\ RawProp("hs_projected_amount") = Str(<<"x">>)
    /\ RawProp("hs_deal_stage_probability") = Absent
    /\ dealStream # <<>>
    /\ dealStream[1].forecastAmount = Num(5)
    /\ dealStream[1].projectedAmount = Num(0)
    /\ dealStream[1].stageProbability = Num(0)

\* the string holds w, o, n, in either case, at three consecutive places
ContainsWonAnyCase(s) ==
    \E i \in 1..(Len(s) - 2) :
        /\ s[i] \in {"w", "W"}
        /\ s[i + 1] \in {"o", "O"}
        /\ s[i + 2] \in {"n", "N"}

\* C10: a record whose dealstage contains "won" in any letter case is
\* normalized with isWon and isClosed.
C10_WonIsWonAndClosed ==
    (RawProp("dealstage").tag = "string" /\ ContainsWonAnyCase(RawProp("dealstage").s)) =>
        \A i \in DOMAIN dealStream : dealStream[i].isWon /\ dealStream[i].isClosed

\* a record of stage "WON" has been normalized
C10_Witness ==
    /\ RawProp("dealstage") = Str(<<"W","O","N">>)
    /\ dealStream # <<>>
    /\ dealStream[1].isWon /\ dealStream[1].isClosed

\* C11: a raw record that has an id is normalized on every delivery, whatever
\* property keys are absent or null, also when it carries nothing but id,
\* properties, createdAt, updatedAt and archived.
C11_MissingOptionalTolerated ==
    (raw.id.tag = "string" /\ deliveries > 0) =>
        (dlq = <<>> /\ Len(dealStream) = deliveries)

\* the least number of whole days that cover ms milliseconds
WholeDays(ms) ==
    CHOOSE n \in 0..30 : n * MsPerDay >= ms /\ (n = 0 \/ (n - 1) * MsPerDay < ms)

\* C13: daysToClose is defined exactly when the record is closed and has a
\* closedate; it is then a number, never negative: the absolute difference
\* between the close time and the creation time, rounded up to whole days.
C13_DaysToClose ==
    \A i \in DOMAIN dealStream :
        LET d == dealStream[i]
        IN /\ d.daysToClose.def <=> (d.isClosed /\ ~NoValue(RawProp("closedate")))
           /\ d.daysToClose.def =>
                 /\ ~d.daysToClose.nan
                 /\ d.daysToClose.v >= 0
                 /\ d.closeDate.valid /\ d.createdAt.valid
                 /\ d.daysToClose.v = WholeDays(Abs(d.closeDate.t - d.createdAt.t))

\* C14: customProperties holds exactly the entries of the raw properties
\* whose key is no standard property and whose value is present (not absent,
\* not null, not the empty string), each with its raw value.
C14_CustomProperties ==
    \A i \in DOMAIN dealStream : \A k \in PropKeys :
        dealStream[i].customProperties[k] =
            IF k \notin StandardProperties /\ ~NoValue(RawProp(k))
            THEN RawProp(k) ELSE Absent

\* the string holds t, in lower case, at consecutive places
ContainsLower(s, t) ==
    \E i \in 1..(Len(s) - Len(t) + 1) :
        \A j \in 1..Len(t) : LowerChar(s[i + j - 1]) = t[j]

\* C27: a record whose dealstage does not contain "won" in any letter case is
\* normalized with isWon false; when the stage contains "lost" or "closed" it
\* is closed, hence a lost deal (isClosed and not isWon).
C27_WonOnlyForWon ==
    (RawProp("dealstage").tag = "string" /\ ~ContainsWonAnyCase(RawProp("dealstage").s)) =>
        \A i \in DOMAIN dealStream :
            /\ ~dealStream[i].isWon
            /\ (ContainsLower(RawProp("dealstage").s, <<"l","o","s","t">>)
                  \/ ContainsLower(RawProp("dealstage").s, <<"c","l","o","s","e","d">>))
                 => dealStream[i].isClosed

----------------------------------------------------------------------------
(* Properties of the stream around the transform (PipelineSpec) *)

\* the records consumed so far whose transform fails
FailedSoFar == {i \in 1..deliveries : ~batch[i].associations.present}

\* C12: every raw record consumed ends in exactly one outcome: with k of the
\* records consumed so far failing, the queue holds k dead-letter entries and
\* the HubSpotDeal stream the other records; each entry is the failed record,
\* and the dead-letter consumer puts nothing back.
C12_ExactlyOneOutcome ==
    /\ Len(dlq) = Cardinality(FailedSoFar)
    /\ Len(dealStream) = deliveries - Cardinality(FailedSoFar)
    /\ \A j \in DOMAIN dlq :
           \E i \in FailedSoFar : dlq[j].originalRecord = batch[i]
    /\ dlqSeen <= Len(dlq)

\* a batch of three with one failing record has been consumed, and the
\* dead-letter consumer has seen the entry
C12_Witness ==
    /\ Len(batch) = 3
    /\ deliveries = 3
    /\ Cardinality(FailedSoFar) = 1
    /\ Len(dealStream) = 2
    /\ Len(dlq) = 1
    /\ dlqSeen = 1

----------------------------------------------------------------------------
(* Properties of the workflow trigger API (TriggerSpec) *)

\* the executions a call of the handler started
StartedBy(i) == {e \in DOMAIN executions : executions[e].by = i}

\* C15 (as claimed): for every execution whose sync failed, the response of
\* the call that started it has success false, status failed and the error
\* message.
C15_Original ==
    \A e \in DOMAIN executions :
        executions[e].state = "failed" =>
            LET r == invocations[executions[e].by].response
            IN /\ r.given
               /\ ~r.success
               /\ r.status = "failed"
               /\ r.error = executions[e].error

\* C15 (amended): for every execution whose sync failed, a call that waited
\* for completion responded with success false: with the error of the sync
\* and status failed (status timeout if the message contains "timed out")
\* when the failure came before the timer, with the timeout otherwise; a call
\* that did not wait responded success true, status started, and the failure
\* was logged by the background callback.
C15_FailureSurfacedWhenWaiting ==
    \A e \in DOMAIN executions :
        executions[e].state = "failed" =>
            LET inv == invocations[executions[e].by]
                r == inv.response
            IN IF inv.params.waitForCompletion
               THEN /\ r.given
                    /\ ~r.success
                    /\ IF inv.timerFired
                       THEN r.status = "timeout" /\ r.error = TimeoutMessage
                       ELSE /\ r.error = executions[e].error
                            /\ r.status = IF Includes(executions[e].error, TimedOut)
                                          THEN "timeout" ELSE "failed"
               ELSE /\ r = Started
                    /\ \E l \in DOMAIN backgroundLog :
                           backgroundLog[l] = [execution |-> e, failed |-> TRUE]

\* a call that waited has reported the failure of its sync
C15_Witness ==
    \E e \in DOMAIN executions :
        /\ executions[e].state = "failed"
        /\ executions[e].error = <<"A","u","t","h","F","a","i","l","u","r","e">>
        /\ invocations[executions[e].by].params.waitForCompletion
        /\ ~invocations[executions[e].by].timerFired
        /\ invocations[executions[e].by].response.status = "failed"
        /\ ~invocations[executions[e].by].response.success

\* what became of the execution a call started, if it started one
Outcome(i) ==
    IF StartedBy(i) = {} THEN [state |-> "none", error |-> <<>>]
    ELSE LET e == CHOOSE x \in StartedBy(i) : TRUE
         IN [state |-> executions[e].state, error |-> executions[e].error]

C24_InvalidInputRejected ==
    \A i \in 1..MaxInvocations :
        (invocations[i].pc # "idle"
           /\ (~tokenSet \/ invocations[i].params.workflowName # HubspotDataSync)) =>
            /\ StartedBy(i) = {}
            /\ invocations[i].pc = "done"
            /\ invocations[i].response.given
            /\ ~invocations[i].response.success
            /\ invocations[i].response.status = "failed"
            /\ invocations[i].response.error # <<>>

\* a call with an unknown workflow name was refused while a valid call's
\* execution runs
C24_Witness ==
    /\ tokenSet
    /\ invocations[1].params.workflowName = HubspotDataSync
    /\ invocations[2].pc = "done"
    /\ invocations[2].params.workflowName # HubspotDataSync
    /\ invocations[2].response.status = "failed"
    /\ Len(executions) = 1

\* C26: a call that waited reports status timeout exactly when its timer
\* fired before the workflow promise settled; a rejection before the timer is
\* reported as failed whatever its message, a resolution as completed.
C26_TimeoutOnlyByTimer ==
    \A i \in 1..MaxInvocations :
        (invocations[i].pc = "done" /\ invocations[i].params.waitForCompletion
           /\ StartedBy(i) # {}) =>
            /\ invocations[i].response.status = "timeout" <=> invocations[i].timerFired
            /\ ~invocations[i].timerFired =>
                   invocations[i].response.status =
                       IF Outcome(i).state = "failed" THEN "failed" ELSE "completed"

----------------------------------------------------------------------------
(* Properties of the rate limiter (LimiterSpec) *)

\* the acquire() calls that have returned
Returned == {c \in 1..MaxCalls : calls[c].pc = "returned"}

\* C18: in every state, under every interleaving of the acquire() calls, the
\* tokens of the budget are at least 0 and at most the capacity, and no token
\* is consumed twice: the tokens the returned calls consumed and the tokens
\* left never exceed the initial capacity plus what the refills added.
C18_TokensWithinCapacity ==
    /\ 0 <= bucket.tokens
    /\ bucket.tokens <= bucket.capacity * OneToken
    /\ Cardinality(Returned) * OneToken + bucket.tokens
           <= bucket.capacity * OneToken + bucket.refillPerSecond * bucket.lastRefill

\* one call has returned after waiting for a refill while another still waits
C18_Witness ==
    \E c, d \in 1..MaxCalls :
        /\ calls[c].pc = "returned"
        /\ calls[c].returnedAt > calls[c].calledAt
        /\ calls[d].pc = "waiting"
        /\ bucket.tokens < OneToken

\* C19: on a limiter that starts full with capacity C, the first C acquire()
\* calls return without waiting; a later call returns no sooner than
\* 1/refillPerSecond after the first call, so the (C+1)th of C+1 immediate
\* calls waits at least 1/refillPerSecond.
C19_BurstThenWait ==
    \A c \in 1..MaxCalls :
        /\ c <= bucket.capacity =>
               /\ calls[c].pc # "waiting"
               /\ calls[c].pc = "returned" => calls[c].returnedAt = calls[c].calledAt
        /\ (c > bucket.capacity /\ calls[c].pc = "returned") =>
               /\ (calls[c].returnedAt - calls[1].calledAt) * bucket.refillPerSecond
                      >= TicksPerSecond
               /\ calls[c].calledAt = calls[1].calledAt =>
                      (calls[c].returnedAt - calls[c].calledAt) * bucket.refillPerSecond
                          >= TicksPerSecond

\* C+1 immediate calls: C returned at once, the last exactly
\* 1/refillPerSecond later
C19_Witness ==
    \E c \in 2..MaxCalls :
        /\ c = bucket.capacity + 1
        /\ \A d \in 1..c : calls[d].pc = "returned" /\ calls[d].calledAt = 0
        /\ \A d \in 1..(c - 1) : calls[d].returnedAt = 0
        /\ calls[c].returnedAt * bucket.refillPerSecond = TicksPerSecond

----------------------------------------------------------------------------
(* Properties of the pager (PagerSpec) *)

\* the remote calls of the fetch that failed transiently
TransientFailures ==
    {i \in DOMAIN fetch.responses :
        fetch.responses[i] \in {"rate_limited", "server_error"}}

\* C20: a fetchPage whose remote fails transiently k times and then succeeds
\* makes exactly k + 1 remote calls; when every attempt fails transiently it
\* stops at the bound on its attempts with RemoteUnavailable; a rejection of
\* the credentials raises AuthFailure at once, with no remote call after it
\* (after exactly one call when it is the first answer); acquire() precedes
\* every remote call.
C20_RetryBounded ==
    /\ fetch.remoteCalls <= fetch.bound
    /\ fetch.remoteCalls = Len(fetch.responses)
    /\ fetch.acquires = fetch.remoteCalls
    /\ fetch.result = "ok" =>
           /\ fetch.remoteCalls = Cardinality(TransientFailures) + 1
           /\ fetch.responses[Len(fetch.responses)] = "ok"
    /\ fetch.result = "RemoteUnavailable" =>
           /\ fetch.remoteCalls = fetch.bound
           /\ Cardinality(TransientFailures) = fetch.bound
    /\ Cardinality(TransientFailures) = fetch.bound =>
           (fetch.result = "RemoteUnavailable" /\ fetch.pc = "done")
    /\ \A i \in DOMAIN fetch.responses :
           fetch.responses[i] = "unauthorized" =>
               /\ i = Len(fetch.responses)
               /\ fetch.remoteCalls = i
               /\ fetch.result = "AuthFailure"
               /\ fetch.pc = "done"
    /\ fetch.result = "AuthFailure" =>
           fetch.responses[Len(fetch.responses)] = "unauthorized"

\* two transient failures, then a page: three remote calls
C20_Witness ==
    /\ fetch.responses = <<"rate_limited", "server_error", "ok">>
    /\ fetch.remoteCalls = 3
    /\ fetch.result = "ok"

----------------------------------------------------------------------------
(* Properties of the connector core (ConnectorSpec) *)

RECURSIVE RecordsFrom(_)
\* the records of the remote source from page p on, in page order and in
\* server order within a page
RecordsFrom(p) ==
    IF p > Len(remote) THEN <<>> ELSE remote[p].records \o RecordsFrom(p + 1)

IsPrefix(s, t) == Len(s) <= Len(t) /\ SubSeq(t, 1, Len(s)) = s

\* C21: a stream over P pages, the last without a cursor, yields the records
\* of the pages in page order and in server order within a page, each once;
\* when it ends it has yielded all of them and has issued exactly P page
\* fetches, and it never issues more than P.
C21_PaginationTerminates ==
    /\ IsPrefix(stream.out, RecordsFrom(1))
    /\ stream.fetches <= Len(remote)
    /\ stream.pc = "done" =>
           /\ stream.out = RecordsFrom(1)
           /\ stream.fetches = Len(remote)
           /\ stream.inFlight = 0
           /\ stream.buffer = <<>>

\* a stream over three pages has ended after three fetches
C21_Witness ==
    /\ Len(remote) = 3
    /\ Len(remote[1].records) = 2 /\ Len(remote[2].records) = 1
    /\ Len(remote[3].records) = 2
    /\ stream.pc = "done"
    /\ Len(stream.out) = 5
    /\ stream.fetches = 3

\* a stream operation on a connector that is not connected fails with
\* NotConnected, without a fetch of its own
C22_NotConnected ==
    /\ (stream.pc # "none" /\ stream.cursor = 0 /\ stream.fetches = 0
           /\ stream.pc = "failed") => stream.error = "NotConnected"
    /\ connector.state = "disconnected" => ~connector.held

\* a stream operation starts no fetch unless the connector is connected, and
\* fails with NotConnected when it is not; a further disconnect() leaves the
\* connector as the first one left it
C22_Steps ==
    /\ stream'.fetches # stream.fetches => connector.state = "connected"
    /\ (stream' # stream /\ stream.pc \in {"none", "open", "pulling"}
           /\ stream'.pc # "abandoned" /\ connector.state # "connected") =>
           (/\ stream'.pc = "failed"
            /\ stream'.error = "NotConnected"
            /\ stream'.fetches = stream.fetches)
    /\ (connector'.disconnects # connector.disconnects
           /\ connector.state = "disconnected") =>
           (connector'.state = "disconnected" /\ connector'.held = connector.held)
    /\ connector'.disconnects # connector.disconnects =>
           (connector'.state = "disconnected" /\ ~connector'.held)

C23_OneFetchAtATime ==
    /\ stream.inFlight <= 1
    /\ stream.inFlight = 1 <=> stream.pc = "fetching"
    /\ stream.pc = "abandoned" => stream.buffer = <<>>

\* a fetch starts only while the consumer waits for a record and every
\* record of the pages fetched so far has been pulled; after the consumer
\* abandoned the sequence nothing is fetched or yielded
C23_Steps ==
    /\ stream'.fetches # stream.fetches =>
           /\ stream.pc = "pulling"
           /\ stream.buffer = <<>>
           /\ stream.inFlight = 0
           /\ stream.out = SubSeq(RecordsFrom(1), 1, Len(stream.out))
           /\ Len(stream.out) = Len(RecordsFrom(1)) - Len(RecordsFrom(stream.fetches + 1))
    /\ stream.pc = "abandoned" => stream' = stream

\* C23: a stream fetches pages on consumer demand only: at most one fetch in
\* flight, page n+1 not fetched before every record of page n was pulled, no
\* fetch after the consumer abandoned the sequence.
C23_DemandDriven == [](C23_OneFetchAtATime) /\ [][C23_Steps]_vars

\* the consumer abandoned the sequence after the first page, with pages left
C23_Witness ==
    /\ stream.pc = "abandoned"
    /\ stream.out # <<>>
    /\ stream.cursor # 0
    /\ stream.fetches < Len(remote)

----------------------------------------------------------------------------
(* Properties of the consumption APIs (ApiSpec) *)

\* the ids of the deals that the rows of an analytics result aggregate
DealsCounted(value) == UNION {r.deals : r \in value.rows}

\* a deal that an analytics request selects when includeArchived = true
\* leaves the archived deals in and includeArchived = false leaves them out
C25_Selects(params, deal) ==
    /\ (~Default(params.includeArchived, FALSE)) => ~deal.isArchived
    /\ Truthy(params.currency) => deal.currency = params.currency.s

\* C25: an analytics query aggregates archived and non-archived deals alike
\* when includeArchived is true, and only the non-archived deals when it is
\* false or not given, for every groupBy.
C25_IncludeArchivedSelectsBoth ==
    (response.request.handler = "analytics" /\ ~response.fromCache) =>
        DealsCounted(response.value) =
            {d.id : d \in {e \in Deals : C25_Selects(response.request.params, e)}}

\* the query that a request asks for: what it selects, groups and limits
EffectiveQuery(request) ==
    IF request.handler = "analytics"
    THEN [handler |-> "analytics",
          groupBy |-> IF GroupByOf(request.params) \in {<<"p","i","p","e","l","i","n","e">>, <<"m","o","n","t","h">>}
                      THEN GroupByOf(request.params) ELSE <<"s","t","a","g","e">>,
          limit |-> Default(request.params.limit, 10),
          includeArchived |-> Default(request.params.includeArchived, FALSE),
          filters |-> IF Truthy(request.params.currency)
                      THEN {Filter("currency", request.params.currency.s)} ELSE {}]
    ELSE [handler |-> "lookup",
          groupBy |-> <<>>,
          limit |-> Default(request.params.limit, 20),
          includeArchived |-> FALSE,
          filters |-> LookupFilters(request.params)]

\* C29: a request is answered from the cache only by an entry that a request
\* with the same effective query wrote: requests that differ in groupBy,
\* limit, includeArchived or the currency filter (currency absent and
\* currency "all" included), or in dealId, dealName, ownerId, stage or limit,
\* never share a cache key.
C29_CacheAnswersSameQuery ==
    response.fromCache =>
        EffectiveQuery(response.request) = EffectiveQuery(response.writer)

\* the conditions a lookup applies: the id alone when dealId is given, else
\* each of dealName, ownerId and stage that is given
C30_Conditions(params) ==
    IF Truthy(params.dealId) THEN {Filter("id", params.dealId.s)}
    ELSE {Filter(f, params[f].s) :
             f \in {g \in {"dealName", "ownerId", "stage"} : Truthy(params[g])}}

\* C30: for every combination of dealId, dealName, ownerId and stage given
\* or not, the lookup that enumerates the branches applies the conditions
\* that the lookup composed from optional clauses applies: the id alone when
\* dealId is given, else the conjunction of the conditions given.
C30_BranchesMatchComposed ==
    response.request.handler = "lookup" =>
        /\ LookupFiltersBranches(response.request.params)
               = LookupFilters(response.request.params)
        /\ LookupFilters(response.request.params)
               = C30_Conditions(response.request.params)
        /\ ~response.fromCache => response.value.filters
               = C30_Conditions(response.request.params)

\* the enumerated lookup answered a request with dealName and stage and with
\* neither dealId nor ownerId
C30_Witness ==
    /\ response.request.handler = "lookup"
    /\ ~response.request.cached
    /\ ~Truthy(response.request.params.dealId)
    /\ Truthy(response.request.params.dealName)
    /\ ~Truthy(response.request.params.ownerId)
    /\ Truthy(response.request.params.stage)
    /\ Cardinality(response.value.filters) = 2

============================================================================
